---- MODULE Spec2Model ----
(***************************************************************************)
(* Attribute store of the NFTs pallet: frame/nfts/src/features/attributes.rs *)
(*                                                                         *)
(* State: the storage maps the attribute functions read and write, the     *)
(* reserve ledger they call, and `last`, the most recent call and its      *)
(* DispatchResult.  Every do_* function is an operator from the storage    *)
(* and the arguments to the result and the storage it leaves; an early     *)
(* return (`ensure!`, `?`) leaves whatever the function had already        *)
(* written before it returned.  One action per function applies it.        *)
(***************************************************************************)
EXTENDS Integers, Sequences, FiniteSets, TLC

\* ---------------------------------------------------------------- bounds
NumAccounts == 3      \* accounts 1..NumAccounts
InitBalance == 4      \* free balance at the start of every account but the last
MaxAttrs    == 2      \* live attribute records the callers create at most
MaxWitness  == 1      \* witness.account_attributes ranges over 0..MaxWitness
MaxCalls    == 3      \* calls in one behaviour of Spec
DeepCalls   == 7      \* calls in one behaviour of SpecOneKey and SpecRevoke

\* ------------------------------------------------- runtime configuration
KeyLimit             == 1   \* T::KeyLimit
ValueLimit           == 1   \* T::ValueLimit
ApprovalsLimit       == 2   \* T::ApprovalsLimit
DepositPerByte       == 1   \* T::DepositPerByte
AttributeDepositBase == 1   \* T::AttributeDepositBase

\* ------------------------------------------------------------ value sets
None == <<>>
Some(x) == <<x>>
IsSome(o) == o # <<>>
Unwrap(o) == o[1]

Accounts == 1..NumAccounts
CollectionIds == {1, 2}        \* collection 1 exists, collection 2 does not
ItemIds == {1, 2}              \* item 1 exists, item 2 was burned
Bytes == {1}

RECURSIVE SeqsUpTo(_, _)
SeqsUpTo(S, n) ==
  IF n = 0 THEN {<<>>}
  ELSE LET shorter == SeqsUpTo(S, n - 1)
       IN shorter \cup {Append(s, b) : s \in {t \in shorter : Len(t) = n - 1}, b \in S}

Keys == SeqsUpTo(Bytes, KeyLimit)       \* BoundedVec<u8, KeyLimit>
Values == SeqsUpTo(Bytes, ValueLimit)   \* BoundedVec<u8, ValueLimit>

\* AttributeNamespace<AccountId>
CollectionOwner == <<"CollectionOwner">>
ItemOwner == <<"ItemOwner">>
Pallet == <<"Pallet">>
Account(a) == <<"Account", a>>
Namespaces == {CollectionOwner, ItemOwner, Pallet} \cup {Account(a) : a \in Accounts}
MaybeItems == {None} \cup {Some(i) : i \in ItemIds}

VARIABLES
  Collection,                 \* CollectionId -> Option<CollectionDetails>
  CollectionConfigOf,         \* CollectionId -> Option<settings>
  Item,                       \* (CollectionId, ItemId) -> Option<owner>
  ItemConfigOf,               \* (CollectionId, ItemId) -> Option<settings>
  ItemMetadataOf,             \* (CollectionId, ItemId) -> Option<data>
  ItemAttributesApprovalsOf,  \* (CollectionId, ItemId) -> set of delegates
  Attribute,                  \* (collection, maybe_item, namespace, key) -> (value, deposit)
  Balances,                   \* account -> [free, reserved]
  Features,                   \* PalletFeature::Attributes enabled
  last,                       \* the latest call: [op, result]
  calls                       \* the number of calls the behaviour may still make

store == <<Collection, CollectionConfigOf, Item, ItemConfigOf, ItemMetadataOf,
           ItemAttributesApprovalsOf, Attribute, Balances, Features>>
vars == <<Collection, CollectionConfigOf, Item, ItemConfigOf, ItemMetadataOf,
          ItemAttributesApprovalsOf, Attribute, Balances, Features, last, calls>>

\* --------------------------------------------------------------- helpers
Min(a, b) == IF a < b THEN a ELSE b

saturating_sub(a, b) == IF a > b THEN a - b ELSE 0

RECURSIVE SumAmounts(_, _)
SumAmounts(att, ks) ==
  IF ks = {} THEN 0
  ELSE LET k == CHOOSE x \in ks : TRUE
       IN att[k].deposit.amount + SumAmounts(att, ks \ {k})

\* Currency::reserve: moves `amount` from free to reserved, or fails.
reserve(bal, who, amount) ==
  IF bal[who].free >= amount
  THEN [err |-> "Ok",
        bal |-> [bal EXCEPT ![who] = [free |-> @.free - amount,
                                      reserved |-> @.reserved + amount]]]
  ELSE [err |-> "InsufficientFunds", bal |-> bal]

\* Currency::unreserve: moves up to `amount` from reserved back to free.
unreserve(bal, who, amount) ==
  LET actual == Min(amount, bal[who].reserved)
  IN [bal EXCEPT ![who] = [free |-> @.free + actual, reserved |-> @.reserved - actual]]

AttributeGet(att, k) == IF k \in DOMAIN att THEN Some(att[k]) ELSE None
AttributeInsert(att, k, v) == [x \in DOMAIN att \cup {k} |-> IF x = k THEN v ELSE att[x]]
AttributeRemove(att, ks) == [x \in DOMAIN att \ ks |-> att[x]]

get_collection_config(collection) == CollectionConfigOf[collection]
get_item_config(collection, item) == ItemConfigOf[<<collection, item>>]

\* What a call returns and the storage it leaves behind.
Outcome(result, att, col, bal, apr) ==
  [result |-> result, Attribute |-> att, Collection |-> col, Balances |-> bal,
   Approvals |-> apr]

\* The call returns `result` having written nothing.
Return(result) ==
  Outcome(result, Attribute, Collection, Balances, ItemAttributesApprovalsOf)

\* ------------------------------------------------- is_valid_namespace
\* is_valid_namespace without the look-up of the item's approvals.
is_valid_namespace_unapproved(origin, namespace, collection, collection_owner, maybe_item) ==
  IF namespace = CollectionOwner
  THEN [err |-> "Ok", result |-> (origin = collection_owner)]
  ELSE IF namespace = ItemOwner
  THEN IF IsSome(maybe_item)
       THEN IF Item[<<collection, Unwrap(maybe_item)>>] = None
            THEN [err |-> "UnknownItem", result |-> FALSE]
            ELSE [err |-> "Ok",
                  result |-> (origin = Unwrap(Item[<<collection, Unwrap(maybe_item)>>]))]
       ELSE [err |-> "Ok", result |-> FALSE]
  ELSE IF namespace[1] = "Account"
  THEN [err |-> "Ok", result |-> (IsSome(maybe_item) /\ namespace[2] = origin)]
  ELSE [err |-> "Ok", result |-> FALSE]

\* Result<bool, DispatchError> as [err, result].
is_valid_namespace(origin, namespace, collection, collection_owner, maybe_item) ==
  IF namespace = CollectionOwner
  THEN [err |-> "Ok", result |-> (origin = collection_owner)]
  ELSE IF namespace = ItemOwner
  THEN IF IsSome(maybe_item)
       THEN IF Item[<<collection, Unwrap(maybe_item)>>] = None
            THEN [err |-> "UnknownItem", result |-> FALSE]
            ELSE [err |-> "Ok",
                  result |-> (origin = Unwrap(Item[<<collection, Unwrap(maybe_item)>>]))]
       ELSE [err |-> "Ok", result |-> FALSE]
  ELSE IF namespace[1] = "Account"
  THEN IF IsSome(maybe_item)
       THEN [err |-> "Ok",
             result |-> (namespace[2] = origin
                         /\ origin \in ItemAttributesApprovalsOf[<<collection, Unwrap(maybe_item)>>])]
       ELSE [err |-> "Ok", result |-> FALSE]
  ELSE [err |-> "Ok", result |-> FALSE]

\* ------------------------------------------------------ do_set_attribute
\* A lock check that reads the collection's setting for item attributes too.
set_lock_check_collection_only(collection_config, collection, maybe_item, namespace) ==
  IF namespace = CollectionOwner
  THEN IF collection_config.UnlockedAttributes THEN "Ok" ELSE "LockedCollectionAttributes"
  ELSE "Ok"

\* A lock check that takes a missing item config for an unlocked item.
set_lock_check_absent_unlocked(collection_config, collection, maybe_item, namespace) ==
  IF namespace = CollectionOwner
  THEN IF maybe_item = None
       THEN IF collection_config.UnlockedAttributes THEN "Ok" ELSE "LockedCollectionAttributes"
       ELSE IF get_item_config(collection, Unwrap(maybe_item)) # None
               /\ ~Unwrap(get_item_config(collection, Unwrap(maybe_item))).UnlockedAttributes
            THEN "LockedItemAttributes"
            ELSE "Ok"
  ELSE "Ok"

\* The lock check of do_set_attribute: a missing item config is an error (`?`).
set_lock_check(collection_config, collection, maybe_item, namespace) ==
  IF namespace = CollectionOwner
  THEN IF maybe_item = None
       THEN IF collection_config.UnlockedAttributes THEN "Ok" ELSE "LockedCollectionAttributes"
       ELSE IF get_item_config(collection, Unwrap(maybe_item)) = None
            THEN "UnknownItem"
            ELSE IF ~Unwrap(get_item_config(collection, Unwrap(maybe_item))).UnlockedAttributes
                 THEN "LockedItemAttributes"
                 ELSE "Ok"
  ELSE "Ok"

\* The deposit a record of this size costs in this namespace.
set_deposit(collection_config, namespace, key, value) ==
  IF collection_config.DepositRequired \/ namespace # CollectionOwner
  THEN DepositPerByte * (Len(key) + Len(value)) + AttributeDepositBase
  ELSE 0

\* Settling the new deposit against the old record's deposit: [err, bal].
set_reconcile(bal, old_deposit, origin, deposit) ==
  IF IsSome(old_deposit.account) /\ old_deposit.account # Some(origin)
  THEN reserve(unreserve(bal, Unwrap(old_deposit.account), old_deposit.amount),
               origin, deposit)
  ELSE IF deposit > old_deposit.amount
  THEN reserve(bal, origin, deposit - old_deposit.amount)
  ELSE IF deposit < old_deposit.amount
  THEN [err |-> "Ok", bal |-> unreserve(bal, origin, old_deposit.amount - deposit)]
  ELSE [err |-> "Ok", bal |-> bal]

\* A depositor recorded in every namespace.
set_deposit_owner_caller(namespace, origin) == Some(origin)

\* The depositor recorded and the collection's owner_deposit after a set.
set_deposit_owner(namespace, origin) ==
  IF namespace = CollectionOwner THEN None ELSE Some(origin)

set_owner_deposit(details, namespace, deposit, old_amount) ==
  IF namespace = CollectionOwner
  THEN [details EXCEPT !.owner_deposit = saturating_sub(@ + deposit, old_amount)]
  ELSE details

\* A counter that goes up on every set, overwrites included.
set_count_always(details, attribute) ==
  [details EXCEPT !.attributes = @ + 1]

\* `attributes.saturating_inc()` when the record is new (u32::MAX is out of reach).
set_count(details, attribute) ==
  IF attribute = None THEN [details EXCEPT !.attributes = @ + 1] ELSE details

\* The record a set stores.
set_record(value, deposit_owner, deposit) ==
  [value |-> value, deposit |-> [account |-> deposit_owner, amount |-> deposit]]

do_set_attribute(origin, collection, maybe_item, namespace, key, value) ==
  LET details0 == Unwrap(Collection[collection])
      valid == is_valid_namespace(origin, namespace, collection, details0.owner, maybe_item)
      collection_config == get_collection_config(collection)
      lock == set_lock_check(Unwrap(collection_config), collection, maybe_item, namespace)
      k == <<collection, maybe_item, namespace, key>>
      attribute == AttributeGet(Attribute, k)
      details1 == set_count(details0, attribute)
      old_deposit == IF attribute = None THEN [account |-> None, amount |-> 0]
                     ELSE Unwrap(attribute).deposit
      deposit == set_deposit(Unwrap(collection_config), namespace, key, value)
      settled == set_reconcile(Balances, old_deposit, origin, deposit)
      details2 == set_owner_deposit(details1, namespace, deposit, old_deposit.amount)
  IN IF ~Features THEN Return("MethodDisabled")
     ELSE IF Collection[collection] = None THEN Return("UnknownCollection")
     ELSE IF valid.err # "Ok" THEN Return(valid.err)
     ELSE IF ~valid.result THEN Return("NoPermission")
     ELSE IF collection_config = None THEN Return("NoConfig")
     ELSE IF lock # "Ok" THEN Return(lock)
     ELSE IF settled.err # "Ok"
     THEN \* `reserve(..)?` returned: what unreserve did before it stays done
          Outcome(settled.err, Attribute, Collection, settled.bal, ItemAttributesApprovalsOf)
     ELSE Outcome("Ok",
                  AttributeInsert(Attribute, k,
                     set_record(value, set_deposit_owner(namespace, origin), deposit)),
                  [Collection EXCEPT ![collection] = Some(details2)],
                  settled.bal, ItemAttributesApprovalsOf)

\* ------------------------------------------------ do_force_set_attribute
\* The reserve released when a record of another depositor is overwritten.
force_release(bal, attribute, set_as) ==
  IF attribute # None
     /\ Unwrap(attribute).deposit.account # set_as
     /\ Unwrap(attribute).deposit.amount # 0
     /\ IsSome(Unwrap(attribute).deposit.account)
  THEN unreserve(bal, Unwrap(Unwrap(attribute).deposit.account),
                 Unwrap(attribute).deposit.amount)
  ELSE bal

\* The record a force-set stores.
force_record(value, set_as) ==
  [value |-> value, deposit |-> [account |-> set_as, amount |-> 0]]

do_force_set_attribute(set_as, collection, maybe_item, namespace, key, value) ==
  LET details0 == Unwrap(Collection[collection])
      k == <<collection, maybe_item, namespace, key>>
      attribute == AttributeGet(Attribute, k)
      details1 == set_count(details0, attribute)
  IN IF Collection[collection] = None THEN Return("UnknownCollection")
     ELSE Outcome("Ok",
                  AttributeInsert(Attribute, k, force_record(value, set_as)),
                  [Collection EXCEPT ![collection] = Some(details1)],
                  force_release(Balances, attribute, set_as),
                  ItemAttributesApprovalsOf)

\* ---------------------------------------------------- do_clear_attribute
\* A take that yields an empty record where none is stored (a ValueQuery map).
clear_take_or_default(att, k) ==
  IF k \in DOMAIN att THEN Some(att[k])
  ELSE Some([value |-> <<>>, deposit |-> [account |-> None, amount |-> 0]])

\* `Attribute::take(..)`: the record removed and returned, if there is one.
clear_take(att, k) == AttributeGet(att, k)

\* Checks that let the record's depositor past the lock as well.
clear_checks_payer_exempt(maybe_check_owner, deposit, collection, collection_owner, maybe_item, namespace) ==
  IF maybe_check_owner = None \/ deposit.account = maybe_check_owner THEN "Ok"
  ELSE LET valid == is_valid_namespace(Unwrap(maybe_check_owner), namespace, collection,
                                       collection_owner, maybe_item)
       IN IF valid.err # "Ok" THEN valid.err
          ELSE IF ~valid.result THEN "NoPermission"
          ELSE IF namespace = CollectionOwner
          THEN IF maybe_item = None
               THEN IF get_collection_config(collection) = None THEN "NoConfig"
                    ELSE IF Unwrap(get_collection_config(collection)).UnlockedAttributes
                         THEN "Ok"
                         ELSE "LockedCollectionAttributes"
               ELSE IF get_item_config(collection, Unwrap(maybe_item)) # None
                       /\ ~Unwrap(get_item_config(collection, Unwrap(maybe_item))).UnlockedAttributes
                    THEN "LockedItemAttributes"
                    ELSE "Ok"
          ELSE "Ok"

\* The checks a clear with a checking account goes through: "Ok" or the error.
clear_checks(maybe_check_owner, deposit, collection, collection_owner, maybe_item, namespace) ==
  IF maybe_check_owner = None THEN "Ok"
  ELSE LET check_owner == Unwrap(maybe_check_owner)
           valid == IF deposit.account # maybe_check_owner
                    THEN is_valid_namespace(check_owner, namespace, collection,
                                            collection_owner, maybe_item)
                    ELSE [err |-> "Ok", result |-> TRUE]
       IN IF valid.err # "Ok" THEN valid.err
          ELSE IF ~valid.result THEN "NoPermission"
          ELSE IF namespace = CollectionOwner
          THEN IF maybe_item = None
               THEN IF get_collection_config(collection) = None THEN "NoConfig"
                    ELSE IF Unwrap(get_collection_config(collection)).UnlockedAttributes
                         THEN "Ok"
                         ELSE "LockedCollectionAttributes"
               ELSE IF get_item_config(collection, Unwrap(maybe_item)) # None
                       /\ ~Unwrap(get_item_config(collection, Unwrap(maybe_item))).UnlockedAttributes
                    THEN "LockedItemAttributes"
                    ELSE "Ok"
          ELSE "Ok"

\* `attributes.saturating_dec()` and the owner_deposit of the cleared record.
clear_details(details, namespace, deposit) ==
  [details EXCEPT !.attributes = saturating_sub(@, 1),
                  !.owner_deposit = IF namespace = CollectionOwner
                                    THEN saturating_sub(@, deposit.amount)
                                    ELSE @]

\* The reserves a clear releases.
clear_release(bal, collection_owner, namespace, deposit) ==
  LET bal1 == IF namespace = CollectionOwner
              THEN unreserve(bal, collection_owner, deposit.amount)
              ELSE bal
  IN IF IsSome(deposit.account)
     THEN unreserve(bal1, Unwrap(deposit.account), deposit.amount)
     ELSE bal1

do_clear_attribute(maybe_check_owner, collection, maybe_item, namespace, key) ==
  LET k == <<collection, maybe_item, namespace, key>>
      taken == clear_take(Attribute, k)
      deposit == Unwrap(taken).deposit
      details == Unwrap(Collection[collection])
      checks == clear_checks(maybe_check_owner, deposit, collection, details.owner,
                             maybe_item, namespace)
      result == IF Collection[collection] = None THEN "UnknownCollection" ELSE checks
  IN IF taken = None THEN Return("AttributeNotFound")
     ELSE IF result # "Ok"
     THEN \* the record was taken before the function returned the error
          Outcome(result, AttributeRemove(Attribute, {k}), Collection, Balances,
                  ItemAttributesApprovalsOf)
     ELSE Outcome("Ok",
                  AttributeRemove(Attribute, {k}),
                  [Collection EXCEPT ![collection] =
                     Some(clear_details(details, namespace, deposit))],
                  clear_release(Balances, details.owner, namespace, deposit),
                  ItemAttributesApprovalsOf)

\* ------------------------------------------- do_approve_item_attributes
\* An insert that does not look at the bound.
try_insert_unbounded(approvals, delegate) ==
  [ok |-> TRUE, set |-> approvals \cup {delegate}]

\* BoundedBTreeSet::try_insert: [ok, set].
try_insert(approvals, delegate) ==
  IF Cardinality(approvals) < ApprovalsLimit \/ delegate \in approvals
  THEN [ok |-> TRUE, set |-> approvals \cup {delegate}]
  ELSE [ok |-> FALSE, set |-> approvals]

do_approve_item_attributes(check_origin, collection, item, delegate) ==
  LET inserted == try_insert(ItemAttributesApprovalsOf[<<collection, item>>], delegate)
  IN IF ~Features THEN Return("MethodDisabled")
     ELSE IF Item[<<collection, item>>] = None THEN Return("UnknownItem")
     ELSE IF check_origin # Unwrap(Item[<<collection, item>>]) THEN Return("NoPermission")
     ELSE IF ~inserted.ok THEN Return("ReachedApprovalLimit")
     ELSE Outcome("Ok", Attribute, Collection, Balances,
                  [ItemAttributesApprovalsOf EXCEPT ![<<collection, item>>] = inserted.set])

\* ----------------------------------- do_cancel_item_attributes_approval
\* A drain over the shorter prefix (collection, Some(item)).
cancel_drained_whole_item(att, collection, item, delegate) ==
  {k \in DOMAIN att : k[1] = collection /\ k[2] = Some(item)}

\* The keys `drain_prefix((collection, Some(item), Account(delegate)))` removes.
cancel_drained(att, collection, item, delegate) ==
  {k \in DOMAIN att : k[1] = collection /\ k[2] = Some(item) /\ k[3] = Account(delegate)}

\* The reserve released once the witness check has passed.
cancel_release(bal, delegate, deposited) ==
  IF deposited # 0 THEN unreserve(bal, delegate, deposited) ELSE bal

do_cancel_item_attributes_approval(check_origin, collection, item, delegate, witness) ==
  LET drained == cancel_drained(Attribute, collection, item, delegate)
      attributes == Cardinality(drained)
      deposited == SumAmounts(Attribute, drained)
  IN IF ~Features THEN Return("MethodDisabled")
     ELSE IF Item[<<collection, item>>] = None THEN Return("UnknownItem")
     ELSE IF check_origin # Unwrap(Item[<<collection, item>>]) THEN Return("NoPermission")
     ELSE IF ~(attributes <= witness)
     THEN \* drain_prefix has removed the records; try_mutate drops the approvals change
          Outcome("BadWitness", AttributeRemove(Attribute, drained), Collection, Balances,
                  ItemAttributesApprovalsOf)
     ELSE Outcome("Ok",
                  AttributeRemove(Attribute, drained),
                  Collection,
                  cancel_release(Balances, delegate, deposited),
                  [ItemAttributesApprovalsOf EXCEPT ![<<collection, item>>] = @ \ {delegate}])

\* ---------------------------------------------------------------- reads
\* A resolver that looks at the ItemOwner namespace first.
namespace_precedence_item_first(collection, item, key) ==
  IF <<collection, Some(item), ItemOwner, key>> \in DOMAIN Attribute THEN ItemOwner
  ELSE IF <<collection, Some(item), CollectionOwner, key>> \in DOMAIN Attribute THEN CollectionOwner
  ELSE IF <<collection, Some(item), Pallet, key>> \in DOMAIN Attribute THEN Pallet
  ELSE CollectionOwner

namespace_precedence(collection, item, key) ==
  IF <<collection, Some(item), CollectionOwner, key>> \in DOMAIN Attribute THEN CollectionOwner
  ELSE IF <<collection, Some(item), ItemOwner, key>> \in DOMAIN Attribute THEN ItemOwner
  ELSE IF <<collection, Some(item), Pallet, key>> \in DOMAIN Attribute THEN Pallet
  ELSE CollectionOwner

\* A read that resolves the namespace by precedence whatever the caller pinned.
attribute_unpinned(collection, item, key, namespace) ==
  IF key = <<>>
  THEN ItemMetadataOf[<<collection, item>>]
  ELSE LET a == AttributeGet(Attribute,
                   <<collection, Some(item), namespace_precedence(collection, item, key), key>>)
       IN IF a = None THEN None ELSE Some(Unwrap(a).value)

\* Pallet::attribute: Option<Vec<u8>>; `namespace` is None or Some(pinned).
attribute(collection, item, key, namespace) ==
  IF key = <<>>
  THEN ItemMetadataOf[<<collection, item>>]
  ELSE LET ns == IF namespace = None THEN namespace_precedence(collection, item, key)
                 ELSE Unwrap(namespace)
           a == AttributeGet(Attribute, <<collection, Some(item), ns, key>>)
       IN IF a = None THEN None ELSE Some(Unwrap(a).value)

\* ------------------------------------------------------- specification
Metadata == <<1, 1>>   \* the bytes of item 1's metadata

\* Collection 1 (owner 1) holds item 1 (owner 2); item 2 was burned; the last
\* account has no funds.  The
\* settings of collection 1 and item 1 and the feature flag are drawn from
\* `configs`: <<collection unlocked, deposit required, item unlocked, feature>>.
InitWith(configs, budget) ==
  /\ Collection = [c \in CollectionIds |->
       IF c = 1 THEN Some([owner |-> 1, attributes |-> 0, owner_deposit |-> 0]) ELSE None]
  /\ Item = [ci \in CollectionIds \X ItemIds |-> IF ci = <<1, 1>> THEN Some(2) ELSE None]
  /\ \E cfg \in configs :
       /\ CollectionConfigOf = [c \in CollectionIds |->
            IF c = 1 THEN Some([UnlockedAttributes |-> cfg[1], DepositRequired |-> cfg[2]])
            ELSE None]
       /\ ItemConfigOf = [ci \in CollectionIds \X ItemIds |->
            IF ci = <<1, 1>> THEN Some([UnlockedAttributes |-> cfg[3]]) ELSE None]
       /\ Features = cfg[4]
  /\ ItemMetadataOf = [ci \in CollectionIds \X ItemIds |->
       IF ci = <<1, 1>> THEN Some(Metadata) ELSE None]
  /\ ItemAttributesApprovalsOf = [ci \in CollectionIds \X ItemIds |-> {}]
  /\ Attribute = <<>>
  /\ Balances = [a \in Accounts |->
       [free |-> IF a = NumAccounts THEN 0 ELSE InitBalance, reserved |-> 0]]
  /\ last = [op |-> "none", result |-> "Ok"]
  /\ calls = budget

\* The storage and the call record after a call with outcome `out`.
Apply(op, out) ==
  /\ calls > 0
  /\ calls' = calls - 1
  /\ Attribute' = out.Attribute
  /\ Collection' = out.Collection
  /\ Balances' = out.Balances
  /\ ItemAttributesApprovalsOf' = out.Approvals
  /\ last' = [op |-> op, result |-> out.result]
  /\ UNCHANGED <<CollectionConfigOf, Item, ItemConfigOf, ItemMetadataOf, Features>>

\* The callers keep at most MaxAttrs records alive.
MayStore(k) == k \in DOMAIN Attribute \/ Cardinality(DOMAIN Attribute) < MaxAttrs

\* Each action takes the sets its arguments are drawn from; `targets` are
\* <<collection, maybe_item, namespace>> triples.
SetAttribute(origins, targets, keys, values) ==
  \E origin \in origins, t \in targets, key \in keys, value \in values :
       /\ MayStore(<<t[1], t[2], t[3], key>>)
       /\ Apply("set_attribute", do_set_attribute(origin, t[1], t[2], t[3], key, value))

ForceSetAttribute(payers, targets, keys, values) ==
  \E set_as \in payers, t \in targets, key \in keys, value \in values :
       /\ MayStore(<<t[1], t[2], t[3], key>>)
       /\ Apply("force_set_attribute",
                do_force_set_attribute(set_as, t[1], t[2], t[3], key, value))

ClearAttribute(checkers, targets, keys) ==
  \E maybe_check_owner \in checkers, t \in targets, key \in keys :
       Apply("clear_attribute", do_clear_attribute(maybe_check_owner, t[1], t[2], t[3], key))

ApproveItemAttributes(origins, items, delegates) ==
  \E check_origin \in origins, ci \in items, delegate \in delegates :
       Apply("approve_item_attributes",
             do_approve_item_attributes(check_origin, ci[1], ci[2], delegate))

CancelItemAttributesApproval(origins, items, delegates, witnesses) ==
  \E check_origin \in origins, ci \in items, delegate \in delegates, witness \in witnesses :
       Apply("cancel_item_attributes_approval",
             do_cancel_item_attributes_approval(check_origin, ci[1], ci[2], delegate, witness))

\* An item changes owner; its attributes and their deposits are not moved.
Transfer(items, dests) ==
  \E ci \in items, dest \in dests :
       /\ calls > 0
       /\ calls' = calls - 1
       /\ Item[ci] # None
       /\ Unwrap(Item[ci]) # dest
       /\ Item' = [Item EXCEPT ![ci] = Some(dest)]
       /\ last' = [op |-> "transfer", result |-> "Ok"]
       /\ UNCHANGED <<Collection, CollectionConfigOf, ItemConfigOf, ItemMetadataOf,
                      ItemAttributesApprovalsOf, Attribute, Balances, Features>>

MaybeAccounts == {None} \cup {Some(a) : a \in Accounts}
Witnesses == 0..MaxWitness

\* Spec: every function, on the collection-level attribute, the attributes of
\* item 1 in each namespace, an attribute of the burned item 2 and one of the
\* unknown collection 2; every combination of the lock and deposit settings
\* with the feature enabled, and the feature disabled.
Configs == {<<c, d, i, TRUE>> : c \in BOOLEAN, d \in BOOLEAN, i \in BOOLEAN}
             \cup {<<TRUE, TRUE, TRUE, FALSE>>}
Targets == {<<1, None, CollectionOwner>>, <<1, Some(1), CollectionOwner>>,
            <<1, Some(1), ItemOwner>>, <<1, Some(1), Account(1)>>,
            <<1, Some(1), Pallet>>, <<1, Some(2), CollectionOwner>>,
            <<2, None, CollectionOwner>>}
ForcePayers == {None, Some(1), Some(2)}
Items == {<<1, 1>>, <<1, 2>>}
TheKey == {<<1>>}

Init == InitWith(Configs, MaxCalls)

Next ==
  \/ SetAttribute(Accounts, Targets, TheKey, Values)
  \/ ForceSetAttribute(ForcePayers, Targets, TheKey, {<<1>>})
  \/ ClearAttribute(MaybeAccounts, Targets, TheKey)
  \/ ApproveItemAttributes(Accounts, Items, Accounts)
  \/ CancelItemAttributesApproval(Accounts, Items, Accounts, Witnesses)
  \/ Transfer(Items, Accounts)

Spec == Init /\ [][Next]_vars

\* SpecOk: the behaviours of Spec in which every call returns Ok.
NextOk == Next /\ last'.result = "Ok"

SpecOk == Init /\ [][NextOk]_vars

\* ------------------------------------------------------------- claims
\* The live records of a collection.
RecordsOf(att, c) == {k \in DOMAIN att : k[1] = c}

\* C1 (as claimed): in every reachable state a collection's `attributes`
\* counter equals the number of live attribute records of that collection.
C1_CounterEqualsRecords ==
  \A c \in CollectionIds :
     Collection[c] # None =>
        Unwrap(Collection[c]).attributes = Cardinality(RecordsOf(Attribute, c))

\* SpecOneKey: set_attribute and clear_attribute by any caller on the single
\* key (1, Some(1), ItemOwner, <<1>>), and transfers of item 1.
OneKey == <<1, Some(1), ItemOwner, <<1>>>>

InitOneKey == InitWith(Configs, DeepCalls)

NextOneKey ==
  \/ SetAttribute(Accounts, {<<OneKey[1], OneKey[2], OneKey[3]>>}, {OneKey[4]}, Values)
  \/ ClearAttribute(MaybeAccounts, {<<OneKey[1], OneKey[2], OneKey[3]>>}, {OneKey[4]})
  \/ Transfer({<<1, 1>>}, Accounts)

SpecOneKey == InitOneKey /\ [][NextOneKey]_vars

RECURSIVE TotalReserved(_, _)
TotalReserved(bal, as) ==
  IF as = {} THEN 0
  ELSE LET a == CHOOSE x \in as : TRUE
       IN bal[a].reserved + TotalReserved(bal, as \ {a})

\* C2 (as claimed): after any sequence of set_attribute and clear_attribute on
\* one key, the amount reserved for the key (all that is reserved, the key being
\* the only one used) equals the deposit amount stored in the key's record, and
\* is zero when the key has no record.
C2_ReservedEqualsRecordDeposit ==
  TotalReserved(Balances, Accounts) =
     IF OneKey \in DOMAIN Attribute THEN Attribute[OneKey].deposit.amount ELSE 0

\* ---- C3
\* `caller` is not the one the namespace belongs to: not the collection's
\* owner (CollectionOwner), not the item's current owner (ItemOwner), not the
\* namespace's account with an approval on the item (Account); nobody is for
\* Pallet.
NotEntitled(caller, c, mi, ns) ==
  IF ns = CollectionOwner
  THEN Collection[c] = None \/ Unwrap(Collection[c]).owner # caller
  ELSE IF ns = ItemOwner
  THEN mi = None \/ Item[<<c, Unwrap(mi)>>] # Some(caller)
  ELSE IF ns = Pallet
  THEN TRUE
  ELSE mi = None \/ ns[2] # caller
         \/ caller \notin ItemAttributesApprovalsOf[<<c, Unwrap(mi)>>]

\* The recorded depositor of the record at k, if there is a record.
IsPayer(caller, k) ==
  k \in DOMAIN Attribute /\ Attribute[k].deposit.account = Some(caller)

\* The item a namespace check would look up exists.
ItemKnown(c, mi, ns) ==
  ns = ItemOwner /\ mi # None => Item[<<c, Unwrap(mi)>>] # None

\* C3 (as claimed): a caller who is not entitled to the namespace never
\* succeeds in set_attribute or clear_attribute on it.
C3_Original ==
  \A caller \in Accounts, c \in CollectionIds, mi \in MaybeItems, ns \in Namespaces,
     key \in TheKey, value \in Values :
       NotEntitled(caller, c, mi, ns) =>
          /\ do_set_attribute(caller, c, mi, ns, key, value).result # "Ok"
          /\ do_clear_attribute(Some(caller), c, mi, ns, key).result # "Ok"

\* C3 (amended): a caller who is not entitled to the namespace never succeeds
\* in set_attribute, and never succeeds in clear_attribute unless it is the
\* recorded depositor of the record it clears; once the call is past the
\* look-ups (feature on, collection and item known, record present for a
\* clear) the error is NoPermission.
C3_UnentitledCallerFails ==
  \A caller \in Accounts, c \in CollectionIds, mi \in MaybeItems, ns \in Namespaces,
     key \in TheKey, value \in Values :
       NotEntitled(caller, c, mi, ns) =>
          LET set == do_set_attribute(caller, c, mi, ns, key, value).result
              clear == do_clear_attribute(Some(caller), c, mi, ns, key).result
              k == <<c, mi, ns, key>>
          IN /\ set # "Ok"
             /\ (Features /\ Collection[c] # None /\ ItemKnown(c, mi, ns))
                   => set = "NoPermission"
             /\ ~IsPayer(caller, k) => clear # "Ok"
             /\ (~IsPayer(caller, k) /\ k \in DOMAIN Attribute /\ Collection[c] # None
                   /\ ItemKnown(c, mi, ns))
                   => clear = "NoPermission"

\* A clear by a caller without standing has just returned NoPermission.
C3_Witness == last.op = "clear_attribute" /\ last.result = "NoPermission"

\* ---- C4
\* The settings record of item i of collection c exists and has
\* UnlockedAttributes disabled.
ItemLocked(c, i) ==
  /\ get_item_config(c, i) # None
  /\ ~Unwrap(get_item_config(c, i)).UnlockedAttributes

\* C4 (as claimed): while an item's settings exist with UnlockedAttributes
\* disabled, every set_attribute and every clear_attribute on a
\* CollectionOwner attribute of the item returns LockedItemAttributes, whoever
\* calls (any account, or root for a clear).
C4_Original ==
  \A c \in CollectionIds, i \in ItemIds, key \in TheKey, value \in Values :
    ItemLocked(c, i) =>
      /\ \A caller \in Accounts :
           do_set_attribute(caller, c, Some(i), CollectionOwner, key, value).result
              = "LockedItemAttributes"
      /\ \A checker \in MaybeAccounts :
           do_clear_attribute(checker, c, Some(i), CollectionOwner, key).result
              = "LockedItemAttributes"

\* C4 (amended): while an item's settings exist with UnlockedAttributes
\* disabled, no set_attribute and no clear_attribute with a checking account
\* succeeds on a CollectionOwner attribute of the item.  The error is
\* LockedItemAttributes for a caller that passes the namespace check (the
\* collection owner, or for a clear the record's depositor) once the look-ups
\* are past; a clear by root has no lock check and succeeds on a stored record.
C4_LockedItemRejects ==
  \A c \in CollectionIds, i \in ItemIds, key \in TheKey, value \in Values :
    ItemLocked(c, i) =>
      LET k == <<c, Some(i), CollectionOwner, key>>
          known == Collection[c] # None
          stored == k \in DOMAIN Attribute
      IN /\ \A caller \in Accounts :
              LET set == do_set_attribute(caller, c, Some(i), CollectionOwner, key, value).result
                  clear == do_clear_attribute(Some(caller), c, Some(i), CollectionOwner, key).result
                  owner == known /\ Unwrap(Collection[c]).owner = caller
              IN /\ set # "Ok"
                 /\ clear # "Ok"
                 /\ (Features /\ owner /\ get_collection_config(c) # None)
                       => set = "LockedItemAttributes"
                 /\ (stored /\ known /\ (owner \/ IsPayer(caller, k)))
                       => clear = "LockedItemAttributes"
         /\ (stored /\ known)
               => do_clear_attribute(None, c, Some(i), CollectionOwner, key).result = "Ok"

\* A clear of a stored attribute of a locked item has just been refused.
C4_Witness == last.op = "clear_attribute" /\ last.result = "LockedItemAttributes"

\* ---- C5
\* C5 (as claimed): a clear_attribute that returns NoPermission,
\* LockedCollectionAttributes or LockedItemAttributes leaves the record, the
\* collection's details and every balance as they were.
C5_FailedClearCommitsNothing ==
  \A checker \in MaybeAccounts, t \in Targets, key \in TheKey :
    LET out == do_clear_attribute(checker, t[1], t[2], t[3], key)
    IN out.result \in {"NoPermission", "LockedCollectionAttributes", "LockedItemAttributes"}
         => /\ out.Attribute = Attribute
            /\ out.Collection = Collection
            /\ out.Balances = Balances

\* ---- C6
\* C6 (as claimed): a set_attribute over a record whose depositor is another
\* account than the caller, failing with InsufficientFunds, leaves the old
\* depositor's reserve, the record and the collection's details as they were.
C6_FailedReserveCommitsNothing ==
  \A origin \in Accounts, t \in Targets, key \in TheKey, value \in Values :
    LET k == <<t[1], t[2], t[3], key>>
        out == do_set_attribute(origin, t[1], t[2], t[3], key, value)
    IN (/\ k \in DOMAIN Attribute
        /\ IsSome(Attribute[k].deposit.account)
        /\ Attribute[k].deposit.account # Some(origin)
        /\ out.result = "InsufficientFunds")
         => /\ out.Balances = Balances
            /\ out.Attribute = Attribute
            /\ out.Collection = Collection

\* ---- C7
\* The step is a successful clear_attribute(checker, t, key).
IsClearOf(checker, t, key) ==
  LET out == do_clear_attribute(checker, t[1], t[2], t[3], key)
  IN /\ last'.op = "clear_attribute" /\ last'.result = "Ok"
     /\ out.result = "Ok"
     /\ Attribute' = out.Attribute
     /\ Collection' = out.Collection
     /\ Balances' = out.Balances
     /\ ItemAttributesApprovalsOf' = out.Approvals

\* C7: a clear_attribute of a key with no record returns AttributeNotFound and
\* writes nothing, for root and for every checking account, whether or not
\* the collection exists or is locked; a clear repeated right after a
\* successful clear of the key does so.
C7_ClearOfMissingKey ==
  /\ [](\A checker \in MaybeAccounts, c \in CollectionIds, mi \in MaybeItems,
           ns \in Namespaces, key \in Keys :
             <<c, mi, ns, key>> \notin DOMAIN Attribute
                => do_clear_attribute(checker, c, mi, ns, key) = Return("AttributeNotFound"))
  /\ [][\A checker \in MaybeAccounts, t \in Targets, key \in TheKey :
           IsClearOf(checker, t, key)
              => \A again \in MaybeAccounts :
                    (do_clear_attribute(again, t[1], t[2], t[3], key))'
                       = (Return("AttributeNotFound"))']_vars

\* A clear of a key with no record has just been answered.
C7_Witness == last.op = "clear_attribute" /\ last.result = "AttributeNotFound"

\* ---- C8
\* SpecRoundTrip: sets and clears of the attributes of item 1, the empty key
\* included, by every account, with account 1 approved or not.
ItemTargets == {<<1, Some(1), CollectionOwner>>, <<1, Some(1), ItemOwner>>,
                <<1, Some(1), Account(1)>>}

InitRoundTrip == InitWith(Configs, MaxCalls)

NextRoundTrip ==
  \/ SetAttribute(Accounts, ItemTargets, Keys, Values)
  \/ ClearAttribute(MaybeAccounts, ItemTargets, Keys)
  \/ ApproveItemAttributes(Accounts, {<<1, 1>>}, {1})

SpecRoundTrip == InitRoundTrip /\ [][NextRoundTrip]_vars

\* The step is a successful set_attribute(origin, t, key, value).
IsSetOf(origin, t, key, value) ==
  LET out == do_set_attribute(origin, t[1], t[2], t[3], key, value)
  IN /\ last'.op = "set_attribute" /\ last'.result = "Ok"
     /\ out.result = "Ok"
     /\ Attribute' = out.Attribute
     /\ Collection' = out.Collection
     /\ Balances' = out.Balances
     /\ ItemAttributesApprovalsOf' = out.Approvals

\* C8: for a non-empty key, right after a successful set_attribute the read
\* of the key pinned to the namespace written returns exactly the value set,
\* and right after a successful clear_attribute of the key it returns nothing.
C8_RoundTrip ==
  [][\A t \in ItemTargets, key \in Keys \ {<<>>} :
        /\ \A origin \in Accounts, value \in Values :
              IsSetOf(origin, t, key, value)
                 => (attribute(t[1], Unwrap(t[2]), key, Some(t[3])))' = Some(value)
        /\ \A checker \in MaybeAccounts :
              IsClearOf(checker, t, key)
                 => (attribute(t[1], Unwrap(t[2]), key, Some(t[3])))' = None]_vars

\* A value was set under some namespace of item 1 and cleared again.
C8_Witness ==
  /\ last.op = "clear_attribute" /\ last.result = "Ok"
  /\ \A t \in ItemTargets : attribute(t[1], Unwrap(t[2]), <<1>>, Some(t[3])) = None

\* ---- C9
\* C9: no item's approval set is larger than ApprovalsLimit; on a full set
\* the approval of an account not in it fails, with ReachedApprovalLimit when
\* the item's owner asks, and the set stays as it is.
C9_ApprovalLimit ==
  \A ci \in Items :
    /\ Cardinality(ItemAttributesApprovalsOf[ci]) <= ApprovalsLimit
    /\ \A origin \in Accounts, delegate \in Accounts :
         (/\ delegate \notin ItemAttributesApprovalsOf[ci]
          /\ Cardinality(ItemAttributesApprovalsOf[ci]) = ApprovalsLimit)
           => LET out == do_approve_item_attributes(origin, ci[1], ci[2], delegate)
              IN /\ out.result # "Ok"
                 /\ out = Return(out.result)
                 /\ (Features /\ Item[ci] = Some(origin))
                       => out.result = "ReachedApprovalLimit"

\* The owner's approval of one more delegate than the limit has been refused.
C9_Witness ==
  /\ last.op = "approve_item_attributes" /\ last.result = "ReachedApprovalLimit"
  /\ \E ci \in Items : Cardinality(ItemAttributesApprovalsOf[ci]) = ApprovalsLimit

\* ---- C10
\* SpecRevoke: account 2 as delegate of item 1, with deposits required: its
\* approval and the cancelling of it, sets of the item's ItemOwner attribute
\* and of the delegate's own, and transfers of the item.
RevokeTargets == {<<1, Some(1), ItemOwner>>, <<1, Some(1), Account(2)>>}

InitRevoke == InitWith({<<TRUE, TRUE, TRUE, TRUE>>}, DeepCalls)

NextRevoke ==
  \/ SetAttribute(Accounts, RevokeTargets, TheKey, {<<>>})
  \/ ApproveItemAttributes(Accounts, {<<1, 1>>}, {2})
  \/ CancelItemAttributesApproval(Accounts, {<<1, 1>>}, {2}, Witnesses)
  \/ Transfer({<<1, 1>>}, Accounts)

SpecRevoke == InitRevoke /\ [][NextRevoke]_vars

\* C10 (as claimed): the owner's cancel-approval of delegate D on item I
\* succeeds whenever D has at most `witness` records on I; after it D is not
\* in I's approval set, no record of I is left in namespace Account(D), and
\* D's reserved balance is lower by exactly the sum of the removed records'
\* deposits.
C10_RevokeReleasesDeposits ==
  \A ci \in Items, D \in Accounts, origin \in Accounts, witness \in Witnesses :
    LET out == do_cancel_item_attributes_approval(origin, ci[1], ci[2], D, witness)
        removed == cancel_drained(Attribute, ci[1], ci[2], D)
    IN /\ (Features /\ Item[ci] = Some(origin) /\ Cardinality(removed) <= witness)
             => out.result = "Ok"
       /\ out.result = "Ok"
             => /\ D \notin out.Approvals[ci]
                /\ cancel_drained(out.Attribute, ci[1], ci[2], D) = {}
                /\ Balances[D].reserved - out.Balances[D].reserved
                      = SumAmounts(Attribute, removed)

\* ---- C11
\* C11: a successful set_attribute raises the collection's `attributes` by
\* one when no record was stored at (collection, item, namespace, key) and
\* leaves it alone when one was; the number of stored records moves alike.
C11_SetCountsNewRecords ==
  [][\A origin \in Accounts, t \in Targets, key \in TheKey, value \in Values :
        IsSetOf(origin, t, key, value)
           => LET k == <<t[1], t[2], t[3], key>>
                  new == IF k \in DOMAIN Attribute THEN 0 ELSE 1
              IN /\ Unwrap(Collection'[t[1]]).attributes
                       = Unwrap(Collection[t[1]]).attributes + new
                 /\ Cardinality(DOMAIN Attribute') = Cardinality(DOMAIN Attribute) + new
                 /\ k \in DOMAIN Attribute']_vars

\* After two calls, the second a successful set, one record is stored and
\* counted once.
C11_Witness ==
  /\ last.op = "set_attribute" /\ last.result = "Ok"
  /\ calls = MaxCalls - 2
  /\ Cardinality(DOMAIN Attribute) = 1
  /\ Unwrap(Collection[1]).attributes = 1
  /\ \E k \in DOMAIN Attribute : Attribute[k].value = <<1>>

\* ---- C12
\* The records of collection c in the CollectionOwner namespace.
OwnerRecords(att, c) == {k \in RecordsOf(att, c) : k[3] = CollectionOwner}

\* C12 (as claimed): a collection's owner_deposit equals the sum of the
\* deposit amounts of its stored CollectionOwner records.
C12_OwnerDepositIsSum ==
  \A c \in CollectionIds :
    Collection[c] # None
      => Unwrap(Collection[c]).owner_deposit
            = SumAmounts(Attribute, OwnerRecords(Attribute, c))

\* ---- C13
\* The records of item ci in namespace Account(D).
DelegateRecords(ci, D) ==
  {k \in DOMAIN Attribute : k[1] = ci[1] /\ k[2] = Some(ci[2]) /\ k[3] = Account(D)}

\* The owner of item ci cancels with a witness lower than the number of the
\* delegate's records.
WitnessOverrun(origin, ci, D, witness) ==
  /\ Features
  /\ Item[ci] = Some(origin)
  /\ Cardinality(DelegateRecords(ci, D)) > witness

\* C13 (as claimed): an owner's cancel-approval whose drain exceeds the
\* witness returns BadWitness with the delegate's records of the item removed
\* and the delegate's reserve for the drained records changed.
C13_Original ==
  \A ci \in Items, D \in Accounts, origin \in Accounts, witness \in Witnesses :
    WitnessOverrun(origin, ci, D, witness) =>
      LET out == do_cancel_item_attributes_approval(origin, ci[1], ci[2], D, witness)
      IN /\ out.result = "BadWitness"
         /\ out.Attribute = AttributeRemove(Attribute, DelegateRecords(ci, D))
         /\ SumAmounts(Attribute, DelegateRecords(ci, D)) > 0
               => out.Balances[D].reserved # Balances[D].reserved

\* C13 (amended): an owner's cancel-approval whose drain exceeds the witness
\* returns BadWitness with the delegate's records of the item, and only
\* those, removed; no balance changes (the deposits of the drained records
\* stay reserved), the approval set keeps the delegate and the collection's
\* details are left as they were.
C13_BadWitnessDrainsOnly ==
  \A ci \in Items, D \in Accounts, origin \in Accounts, witness \in Witnesses :
    WitnessOverrun(origin, ci, D, witness) =>
      LET out == do_cancel_item_attributes_approval(origin, ci[1], ci[2], D, witness)
      IN /\ out.result = "BadWitness"
         /\ out.Attribute = AttributeRemove(Attribute, DelegateRecords(ci, D))
         /\ out.Attribute # Attribute
         /\ out.Balances = Balances
         /\ out.Approvals = ItemAttributesApprovalsOf
         /\ out.Collection = Collection

\* A cancel-approval has just been refused for its witness.
C13_Witness ==
  last.op = "cancel_item_attributes_approval" /\ last.result = "BadWitness"

\* ---- C14
\* A record is stored at k in an existing collection and the caller is root
\* or the record's depositor.
RootOrPayer(checker, k) ==
  /\ k \in DOMAIN Attribute
  /\ Collection[k[1]] # None
  /\ (checker = None \/ Attribute[k].deposit.account = checker)

\* C14 (as claimed): a clear_attribute of a stored record of an existing
\* collection by root or by the record's depositor succeeds, whatever the
\* namespace and the lock settings.
C14_Original ==
  \A checker \in MaybeAccounts, c \in CollectionIds, mi \in MaybeItems,
     ns \in Namespaces, key \in TheKey :
       RootOrPayer(checker, <<c, mi, ns, key>>)
          => do_clear_attribute(checker, c, mi, ns, key).result = "Ok"

\* What the lock check of a clear answers for a CollectionOwner attribute.
ClearLock(c, mi) ==
  IF mi = None
  THEN IF get_collection_config(c) = None THEN "NoConfig"
       ELSE IF Unwrap(get_collection_config(c)).UnlockedAttributes THEN "Ok"
       ELSE "LockedCollectionAttributes"
  ELSE IF ItemLocked(c, Unwrap(mi)) THEN "LockedItemAttributes" ELSE "Ok"

\* C14 (amended): a clear_attribute of a stored record of an existing
\* collection by root runs neither the namespace check nor the lock check and
\* succeeds; by the record's depositor it skips the namespace check only: it
\* succeeds outside the CollectionOwner namespace, and in it fails with
\* LockedCollectionAttributes or LockedItemAttributes when the collection or
\* the item has UnlockedAttributes disabled.
C14_PayerSkipsNamespaceCheckOnly ==
  \A checker \in MaybeAccounts, c \in CollectionIds, mi \in MaybeItems,
     ns \in Namespaces, key \in TheKey :
       RootOrPayer(checker, <<c, mi, ns, key>>)
          => do_clear_attribute(checker, c, mi, ns, key).result
                = IF checker = None \/ ns # CollectionOwner THEN "Ok" ELSE ClearLock(c, mi)

\* A clear has succeeded on collection 1 with both of its locks on.
C14_Witness ==
  /\ last.op = "clear_attribute" /\ last.result = "Ok"
  /\ ItemLocked(1, 1)
  /\ ~Unwrap(get_collection_config(1)).UnlockedAttributes

\* ---- C15
\* Item i of the existing collection c has no settings record, the feature is
\* on and `caller` owns the collection, so a call on a CollectionOwner
\* attribute of the item gets as far as the lock check.
AtLockOfUnsetItem(caller, c, i) ==
  /\ Features
  /\ Collection[c] # None
  /\ Unwrap(Collection[c]).owner = caller
  /\ get_collection_config(c) # None
  /\ get_item_config(c, i) = None

\* C15 (as claimed): on a CollectionOwner attribute of an item without a
\* settings record neither the collection owner's set_attribute nor its
\* clear_attribute of a stored record fails for the missing record.
C15_Original ==
  \A caller \in Accounts, c \in CollectionIds, i \in ItemIds, key \in TheKey, value \in Values :
    AtLockOfUnsetItem(caller, c, i) =>
      /\ do_set_attribute(caller, c, Some(i), CollectionOwner, key, value).result
            \in {"Ok", "InsufficientFunds"}
      /\ <<c, Some(i), CollectionOwner, key>> \in DOMAIN Attribute
            => do_clear_attribute(Some(caller), c, Some(i), CollectionOwner, key).result = "Ok"

\* C15 (amended): on a CollectionOwner attribute of an item without a
\* settings record the collection owner's clear_attribute of a stored record
\* succeeds, the missing record counting as unlocked; its set_attribute
\* fails with the error of the settings look-up and writes nothing.
C15_UnsetItemClearsButDoesNotSet ==
  \A caller \in Accounts, c \in CollectionIds, i \in ItemIds, key \in TheKey, value \in Values :
    AtLockOfUnsetItem(caller, c, i) =>
      /\ do_set_attribute(caller, c, Some(i), CollectionOwner, key, value)
            = Return("UnknownItem")
      /\ <<c, Some(i), CollectionOwner, key>> \in DOMAIN Attribute
            => do_clear_attribute(Some(caller), c, Some(i), CollectionOwner, key).result = "Ok"

\* A set on an attribute of the burned item has just failed on its settings.
C15_Witness == last.op = "set_attribute" /\ last.result = "UnknownItem"

\* ---- C16
\* C16 (as claimed): force_set_attribute on an existing collection succeeds
\* for every namespace and every payer; the record stored has the value, the
\* supplied payer and amount 0; when the record overwritten had another
\* payer and a nonzero amount, exactly that amount leaves the old payer's
\* reserve; no account's reserve grows.
C16_ForceSet ==
  \A set_as \in MaybeAccounts, c \in CollectionIds, mi \in MaybeItems,
     ns \in Namespaces, key \in TheKey, value \in Values :
       Collection[c] # None =>
         LET k == <<c, mi, ns, key>>
             out == do_force_set_attribute(set_as, c, mi, ns, key, value)
         IN /\ out.result = "Ok"
            /\ k \in DOMAIN out.Attribute
            /\ out.Attribute[k] = [value |-> value,
                                   deposit |-> [account |-> set_as, amount |-> 0]]
            /\ (/\ k \in DOMAIN Attribute
                /\ IsSome(Attribute[k].deposit.account)
                /\ Attribute[k].deposit.account # set_as
                /\ Attribute[k].deposit.amount # 0)
                 => LET p == Unwrap(Attribute[k].deposit.account)
                    IN out.Balances[p].reserved
                          = Balances[p].reserved - Attribute[k].deposit.amount
            /\ \A a \in Accounts : out.Balances[a].reserved <= Balances[a].reserved

\* ---- C17
\* The namespaces the resolver chooses from, highest precedence first.
Precedence == <<CollectionOwner, ItemOwner, Pallet>>

\* The positions in Precedence whose namespace has a record for the key.
Stored(c, i, key) ==
  {j \in DOMAIN Precedence : <<c, Some(i), Precedence[j], key>> \in DOMAIN Attribute}

\* C17: the resolver returns the first of CollectionOwner, ItemOwner, Pallet
\* that has a record at (collection, Some(item), namespace, key), and
\* CollectionOwner when none has; it never returns an Account namespace, also
\* when only Account records are stored for the key; an unpinned read of a
\* non-empty key returns what the read pinned to the resolved namespace does.
C17_Resolver ==
  \A c \in CollectionIds, i \in ItemIds, key \in Keys :
    LET ns == namespace_precedence(c, i, key)
        stored == Stored(c, i, key)
    IN /\ stored # {} => \E j \in stored : /\ ns = Precedence[j]
                                           /\ \A h \in stored : j <= h
       /\ stored = {} => ns = CollectionOwner
       /\ \A a \in Accounts : ns # Account(a)
       /\ key # <<>> =>
            /\ attribute(c, i, key, None) = attribute(c, i, key, Some(ns))
            /\ attribute(c, i, key, None)
                  = IF stored = {} THEN None
                    ELSE Some(Attribute[<<c, Some(i), ns, key>>].value)

\* Item 1 has a record in the Pallet namespace and one in an Account
\* namespace for the same key, and none above them.
C17_Witness ==
  /\ <<1, Some(1), Pallet, <<1>>>> \in DOMAIN Attribute
  /\ <<1, Some(1), Account(1), <<1>>>> \in DOMAIN Attribute
  /\ namespace_precedence(1, 1, <<1>>) = Pallet

\* ---- C18
\* The deposit recorded at k, or an empty one when nothing is stored there.
OldDeposit(k) ==
  IF k \in DOMAIN Attribute THEN Attribute[k].deposit ELSE [account |-> None, amount |-> 0]

\* C18 (as claimed): a successful set_attribute stores amount 0 in the
\* CollectionOwner namespace of a collection without DepositRequired and
\* DepositPerByte * (len(key) + len(value)) + AttributeDepositBase otherwise;
\* when the old record has another payer than the caller, that payer's
\* reserve goes down by the old amount and the caller's up by the new one;
\* otherwise the caller's reserve moves by new - old; no other reserve moves.
C18_SetDeposit ==
  \A origin \in Accounts, t \in Targets, key \in TheKey, value \in Values :
    LET k == <<t[1], t[2], t[3], key>>
        out == do_set_attribute(origin, t[1], t[2], t[3], key, value)
        old == OldDeposit(k)
        new == out.Attribute[k].deposit.amount
        before(a) == Balances[a].reserved
        after(a) == out.Balances[a].reserved
    IN out.result = "Ok" =>
         /\ new = IF t[3] = CollectionOwner
                     /\ ~Unwrap(get_collection_config(t[1])).DepositRequired
                  THEN 0
                  ELSE DepositPerByte * (Len(key) + Len(value)) + AttributeDepositBase
         /\ IF IsSome(old.account) /\ old.account # Some(origin)
            THEN /\ after(Unwrap(old.account)) = before(Unwrap(old.account)) - old.amount
                 /\ after(origin) = before(origin) + new
                 /\ \A a \in Accounts \ {origin, Unwrap(old.account)} : after(a) = before(a)
            ELSE /\ after(origin) = before(origin) + new - old.amount
                 /\ \A a \in Accounts \ {origin} : after(a) = before(a)

\* ---- C19
\* C19: no stored CollectionOwner record has both a payer and a nonzero
\* amount; so a successful clear_attribute of a CollectionOwner record takes
\* no more than the record's amount out of the reserves.
C19_OwnerRecordsHaveNoPaidDeposit ==
  /\ \A k \in DOMAIN Attribute :
       k[3] = CollectionOwner
          => ~(IsSome(Attribute[k].deposit.account) /\ Attribute[k].deposit.amount # 0)
  /\ \A checker \in MaybeAccounts, c \in CollectionIds, mi \in MaybeItems, key \in TheKey :
       LET k == <<c, mi, CollectionOwner, key>>
           out == do_clear_attribute(checker, c, mi, CollectionOwner, key)
       IN (k \in DOMAIN Attribute /\ out.result = "Ok")
             => TotalReserved(Balances, Accounts) - TotalReserved(out.Balances, Accounts)
                   <= Attribute[k].deposit.amount

\* A CollectionOwner record with a deposit and one with a payer are stored.
C19_Witness ==
  /\ \E k \in DOMAIN Attribute :
       k[3] = CollectionOwner /\ Attribute[k].deposit.amount # 0
  /\ \E k \in DOMAIN Attribute :
       k[3] = CollectionOwner /\ IsSome(Attribute[k].deposit.account)

\* ---- C20
\* SpecFixedOwners: the calls of Spec that return Ok, without transfers.
NextFixedOwners ==
  /\ \/ SetAttribute(Accounts, Targets, TheKey, Values)
     \/ ForceSetAttribute(ForcePayers, Targets, TheKey, {<<1>>})
     \/ ClearAttribute(MaybeAccounts, Targets, TheKey)
     \/ ApproveItemAttributes(Accounts, Items, Accounts)
     \/ CancelItemAttributesApproval(Accounts, Items, Accounts, Witnesses)
  /\ last'.result = "Ok"

SpecFixedOwners == Init /\ [][NextFixedOwners]_vars

\* The stored records whose recorded payer is account a.
PaidBy(a) == {k \in DOMAIN Attribute : Attribute[k].deposit.account = Some(a)}

\* The owner_deposit of the collections account a owns, summed.
RECURSIVE OwnerDeposits(_, _)
OwnerDeposits(a, cs) ==
  IF cs = {} THEN 0
  ELSE LET c == CHOOSE x \in cs : TRUE
           own == IF Collection[c] # None /\ Unwrap(Collection[c]).owner = a
                  THEN Unwrap(Collection[c]).owner_deposit ELSE 0
       IN own + OwnerDeposits(a, cs \ {c})

\* C20 (as claimed): with item owners fixed, every account's reserved
\* balance equals the sum of the amounts of the stored records it is the
\* payer of plus the owner_deposit of the collections it owns.
C20_LedgerConservation ==
  \A a \in Accounts :
    Balances[a].reserved
       = SumAmounts(Attribute, PaidBy(a)) + OwnerDeposits(a, CollectionIds)
====
